---- MODULE Spec2Model ----
(***************************************************************************)
(* Model of scripts/make_glyphs.py: the two per-pixel passes               *)
(* (remove_background_to_alpha, to_white_silhouette) over PIL image        *)
(* objects held in a heap, and the driver main() that loads the source,    *)
(* runs the passes and saves the two PNG files next to the source.         *)
(***************************************************************************)
EXTENDS Integers, Sequences, FiniteSets, TLC

VARIABLES argv, source, files, pc, heap, base, glyph, white, white2,
          stdout, status, err, trace

vars == <<argv, source, files, pc, heap, base, glyph, white, white2,
          stdout, status, err, trace>>

(* ------------------------------ bounds -------------------------------- *)
\* largest number of pixels of an image
MaxLen == 2

(* --------------------------- program constants ------------------------ *)
\* default arguments of remove_background_to_alpha
default_bg == <<255, 255, 255>>
default_tol == 12

GLYPH_NAME == "icon-glyph.png"
WHITE_NAME == "icon-glyph-white.png"
USAGE == "usage: make_glyphs.py <source_icon>"

(* ------------------------------ inputs -------------------------------- *)
\* colour triples around the tolerance boundary (243 inside, 242 outside)
Colours == { <<255, 255, 255>>, <<243, 243, 243>>, <<250, 250, 250>>,
             <<242, 243, 243>>, <<243, 242, 255>>, <<255, 243, 242>>,
             <<10, 20, 30>> }
Alphas == {0, 1, 255}
Grays == {0, 242, 243, 255}
Modes == {"RGBA", "RGB", "L"}

\* the pixel values an image of a given mode may hold
PixelsOf(mode) ==
    CASE mode = "RGBA" -> { <<c[1], c[2], c[3], a>> : c \in Colours, a \in Alphas }
      [] mode = "RGB"  -> Colours
      [] mode = "L"    -> { <<l>> : l \in Grays }

SeqsUpTo(S, n) == UNION { [1..k -> S] : k \in 1..n }

\* image objects: a mode and the flat, row-major pixel sequence
Images == UNION { [mode : {m}, data : SeqsUpTo(PixelsOf(m), MaxLen)] : m \in Modes }

\* paths are sequences of components
Sources == { <<"icon.png">>, <<"assets", "icon.png">> }
dirname(path) == SubSeq(path, 1, Len(path) - 1)
join(dir, name) == Append(dir, name)
OutPaths == { join(dirname(s), n) : s \in Sources, n \in {GLYPH_NAME, WHITE_NAME} }

\* file contents
Absent == [kind |-> "absent", mode |-> "", data |-> <<>>]
Stale == [kind |-> "stale", mode |-> "", data |-> <<>>]
Partial == [kind |-> "partial", mode |-> "", data |-> <<>>]

(* --------------------------- PIL operations --------------------------- *)
Abs(x) == IF x < 0 THEN -x ELSE x

\* one pixel of Image.convert('RGBA')
convert_pixel(mode, p) ==
    CASE mode = "RGBA" -> p
      [] mode = "RGB"  -> <<p[1], p[2], p[3], 255>>
      [] mode = "L"    -> <<p[1], p[1], p[1], 255>>

\* a new RGBA image object holding the converted pixels
converted(img) ==
    [mode |-> "RGBA",
     data |-> [i \in 1..Len(img.data) |-> convert_pixel(img.mode, img.data[i])]]

\* a variant of convert that converts the object in place and returns it
convert_inplace(h, img) ==
    [heap |-> [h EXCEPT ![img] = converted(h[img])], ret |-> img]

\* img.convert('RGBA'): always allocates a new object, also when the mode
\* already is RGBA
convert(h, img) ==
    [heap |-> Append(h, converted(h[img])), ret |-> Len(h) + 1]

getdata(h, img) == h[img].data
putdata(h, img, out) == [h EXCEPT ![img].data = out]

\* PNG is lossless for RGBA pixel data
encode_png(img) == [kind |-> "png", mode |-> img.mode, data |-> img.data]

(* ---------------------- remove_background_to_alpha -------------------- *)
\* a variant with a strict comparison against the tolerance
is_background_strict(p, bg, tol) ==
    /\ Abs(p[1] - bg[1]) < tol
    /\ Abs(p[2] - bg[2]) < tol
    /\ Abs(p[3] - bg[3]) < tol
    /\ p[4] # 0

\* the condition of line 15
is_background(p, bg, tol) ==
    /\ Abs(p[1] - bg[1]) <= tol
    /\ Abs(p[2] - bg[2]) <= tol
    /\ Abs(p[3] - bg[3]) <= tol
    /\ p[4] # 0

\* a variant that classifies on any one channel instead of all three
remove_pixel_any(p, bg, tol) ==
    IF /\ \/ Abs(p[1] - bg[1]) <= tol
          \/ Abs(p[2] - bg[2]) <= tol
          \/ Abs(p[3] - bg[3]) <= tol
       /\ p[4] # 0
    THEN <<p[1], p[2], p[3], 0>>
    ELSE p

\* the loop body of lines 14-18
remove_pixel(p, bg, tol) ==
    IF is_background(p, bg, tol)
    THEN <<p[1], p[2], p[3], 0>>
    ELSE <<p[1], p[2], p[3], p[4]>>

remove_background_to_alpha(h, img, bg, tol) ==
    LET c == convert(h, img)
        datas == getdata(c.heap, c.ret)
        out == [i \in 1..Len(datas) |-> remove_pixel(datas[i], bg, tol)]
    IN  [heap |-> putdata(c.heap, c.ret, out), ret |-> c.ret]

(* -------------------------- to_white_silhouette ----------------------- *)
\* a variant that keeps the alpha gradation
white_pixel_keep_alpha(p) == <<255, 255, 255, p[4]>>

\* a variant with the two branches exchanged
white_pixel_swapped(p) ==
    IF p[4] = 0 THEN <<255, 255, 255, 255>> ELSE <<255, 255, 255, 0>>

\* a variant without the alpha test
white_pixel_opaque(p) == <<255, 255, 255, 255>>

\* the loop body of lines 26-30
white_pixel(p) ==
    IF p[4] = 0 THEN <<255, 255, 255, 0>> ELSE <<255, 255, 255, 255>>

silhouette_data(datas) == [i \in 1..Len(datas) |-> white_pixel(datas[i])]

to_white_silhouette(h, img) ==
    LET c == convert(h, img)
        datas == getdata(c.heap, c.ret)
        out == silhouette_data(datas)
    IN  [heap |-> putdata(c.heap, c.ret, out), ret |-> c.ret]

(* -------------------------------- main -------------------------------- *)
src == argv[2]
out_dir == dirname(src)
glyph_path == join(out_dir, GLYPH_NAME)
white_path == join(out_dir, WHITE_NAME)

Init ==
    /\ argv \in {<<"make_glyphs.py">>} \cup { <<"make_glyphs.py", s>> : s \in Sources }
    /\ source \in Images
    /\ files \in { [p \in OutPaths |-> Absent], [p \in OutPaths |-> Stale] }
    /\ pc = "start"
    /\ heap = <<>>
    /\ base = 0 /\ glyph = 0 /\ white = 0 /\ white2 = 0
    /\ stdout = <<>>
    /\ status = -1
    /\ err = "none"
    /\ trace = <<>>

\* an uncaught exception ends the interpreter with status 1
Raise(step) ==
    /\ pc' = "exit"
    /\ status' = 1
    /\ err' = step

\* a variant of the usage exit that calls sys.exit() without a status
UsageExitZero ==
    /\ pc = "start"
    /\ Len(argv) < 2
    /\ stdout' = Append(stdout, USAGE)
    /\ status' = 0
    /\ pc' = "exit"
    /\ UNCHANGED <<argv, source, files, heap, base, glyph, white, white2, err, trace>>

\* lines 35-37
UsageExit ==
    /\ pc = "start"
    /\ Len(argv) < 2
    /\ stdout' = Append(stdout, USAGE)
    /\ status' = 1
    /\ pc' = "exit"
    /\ UNCHANGED <<argv, source, files, heap, base, glyph, white, white2, err, trace>>

\* lines 38-40: Image.open succeeds; the pixel data is decoded lazily
Open ==
    /\ pc = "start"
    /\ Len(argv) >= 2
    /\ heap' = Append(heap, source)
    /\ base' = Len(heap) + 1
    /\ trace' = Append(trace, "open")
    /\ pc' = "remove"
    /\ UNCHANGED <<argv, source, files, glyph, white, white2, stdout, status, err>>

\* line 40: the path cannot be read or is not an image
OpenFail ==
    /\ pc = "start"
    /\ Len(argv) >= 2
    /\ trace' = Append(trace, "open")
    /\ Raise("open")
    /\ UNCHANGED <<argv, source, files, heap, base, glyph, white, white2, stdout>>

\* a variant of main that goes on to the silhouette without saving the glyph
RemoveBackgroundNoSave ==
    /\ pc = "remove"
    /\ LET r == remove_background_to_alpha(heap, base, default_bg, default_tol)
       IN  /\ heap' = r.heap
           /\ glyph' = r.ret
    /\ trace' = Append(trace, "remove_background_to_alpha")
    /\ pc' = "silhouette"
    /\ UNCHANGED <<argv, source, files, base, white, white2, stdout, status, err>>

\* line 43
RemoveBackground ==
    /\ pc = "remove"
    /\ LET r == remove_background_to_alpha(heap, base, default_bg, default_tol)
       IN  /\ heap' = r.heap
           /\ glyph' = r.ret
    /\ trace' = Append(trace, "remove_background_to_alpha")
    /\ pc' = "save_glyph"
    /\ UNCHANGED <<argv, source, files, base, white, white2, stdout, status, err>>

\* line 43 -> line 10: convert() loads the pixel data, and decoding fails
DecodeFail ==
    /\ pc = "remove"
    /\ trace' = Append(trace, "remove_background_to_alpha")
    /\ Raise("decode")
    /\ UNCHANGED <<argv, source, files, heap, base, glyph, white, white2, stdout>>

\* line 44
SaveGlyph ==
    /\ pc = "save_glyph"
    /\ files' = [files EXCEPT ![glyph_path] = encode_png(heap[glyph])]
    /\ trace' = Append(trace, "save icon-glyph.png")
    /\ pc' = "silhouette"
    /\ UNCHANGED <<argv, source, heap, base, glyph, white, white2, stdout, status, err>>

\* line 44: the file cannot be opened for writing, or the write breaks off
SaveGlyphFail ==
    /\ pc = "save_glyph"
    /\ \E c \in {files[glyph_path], Partial} :
          files' = [files EXCEPT ![glyph_path] = c]
    /\ trace' = Append(trace, "save icon-glyph.png")
    /\ Raise("save_glyph")
    /\ UNCHANGED <<argv, source, heap, base, glyph, white, white2, stdout>>

\* line 47
Silhouette ==
    /\ pc = "silhouette"
    /\ LET r == to_white_silhouette(heap, glyph)
       IN  /\ heap' = r.heap
           /\ white' = r.ret
    /\ trace' = Append(trace, "to_white_silhouette")
    /\ pc' = "save_white"
    /\ UNCHANGED <<argv, source, files, base, glyph, white2, stdout, status, err>>

\* a variant of line 48 that saves the glyph buffer under the silhouette's name
SaveWhiteWrongBuffer ==
    /\ pc = "save_white"
    /\ files' = [files EXCEPT ![white_path] = encode_png(heap[glyph])]
    /\ trace' = Append(trace, "save icon-glyph-white.png")
    /\ pc' = "exit"
    /\ status' = 0
    /\ UNCHANGED <<argv, source, heap, base, glyph, white, white2, stdout, err>>

\* line 48, falling off the end of main: exit status 0
SaveWhite ==
    /\ pc = "save_white"
    /\ files' = [files EXCEPT ![white_path] = encode_png(heap[white])]
    /\ trace' = Append(trace, "save icon-glyph-white.png")
    /\ pc' = "exit"
    /\ status' = 0
    /\ UNCHANGED <<argv, source, heap, base, glyph, white, white2, stdout, err>>

\* a variant of line 48 that removes the glyph file when the second save fails
SaveWhiteFailCleanup ==
    /\ pc = "save_white"
    /\ \E c \in {files[white_path], Partial} :
          files' = [files EXCEPT ![white_path] = c, ![glyph_path] = Absent]
    /\ trace' = Append(trace, "save icon-glyph-white.png")
    /\ Raise("save_white")
    /\ UNCHANGED <<argv, source, heap, base, glyph, white, white2, stdout>>

\* line 48: the file cannot be opened for writing, or the write breaks off
SaveWhiteFail ==
    /\ pc = "save_white"
    /\ \E c \in {files[white_path], Partial} :
          files' = [files EXCEPT ![white_path] = c]
    /\ trace' = Append(trace, "save icon-glyph-white.png")
    /\ Raise("save_white")
    /\ UNCHANGED <<argv, source, heap, base, glyph, white, white2, stdout>>

Next ==
    \/ UsageExit
    \/ Open
    \/ OpenFail
    \/ RemoveBackground
    \/ DecodeFail
    \/ SaveGlyph
    \/ SaveGlyphFail
    \/ Silhouette
    \/ SaveWhite
    \/ SaveWhiteFail

Spec == Init /\ [][Next]_vars

(* -------------------- the passes on arbitrary buffers ----------------- *)
\* the two passes called directly, on any image buffer: base is the
\* argument, glyph = remove_background_to_alpha(base),
\* white = to_white_silhouette(base), white2 = to_white_silhouette(white)
InitPasses ==
    /\ argv = <<"make_glyphs.py">>
    /\ source \in Images
    /\ files = [p \in OutPaths |-> Absent]
    /\ pc = "passes"
    /\ heap = <<source>>
    /\ base = 1 /\ glyph = 0 /\ white = 0 /\ white2 = 0
    /\ stdout = <<>>
    /\ status = -1
    /\ err = "none"
    /\ trace = <<>>

CallRemoveBackground ==
    /\ pc = "passes"
    /\ glyph = 0
    /\ LET r == remove_background_to_alpha(heap, base, default_bg, default_tol)
       IN  /\ heap' = r.heap
           /\ glyph' = r.ret
    /\ UNCHANGED <<argv, source, files, pc, base, white, white2, stdout, status, err, trace>>

CallSilhouette ==
    /\ pc = "passes"
    /\ white = 0
    /\ LET r == to_white_silhouette(heap, base)
       IN  /\ heap' = r.heap
           /\ white' = r.ret
    /\ UNCHANGED <<argv, source, files, pc, base, glyph, white2, stdout, status, err, trace>>

CallSilhouetteAgain ==
    /\ pc = "passes"
    /\ white # 0
    /\ white2 = 0
    /\ LET r == to_white_silhouette(heap, white)
       IN  /\ heap' = r.heap
           /\ white2' = r.ret
    /\ UNCHANGED <<argv, source, files, pc, base, glyph, white, stdout, status, err, trace>>

NextPasses ==
    \/ CallRemoveBackground
    \/ CallSilhouette
    \/ CallSilhouetteAgain

SpecPasses == InitPasses /\ [][NextPasses]_vars

(* ------------------------------ properties ---------------------------- *)
\* pixel i of an image as the passes see it, after convert('RGBA')
PixelAt(img, i) == convert_pixel(img.mode, img.data[i])
Positions(img) == 1..Len(img.data)
NearWhite(p) ==
    /\ Abs(p[1] - 255) <= 12
    /\ Abs(p[2] - 255) <= 12
    /\ Abs(p[3] - 255) <= 12
InitialFiles == { [p \in OutPaths |-> Absent], [p \in OutPaths |-> Stale] }

\* C1: remove_background_to_alpha maps every pixel (r,g,b,a) whose three
\* channels are each within 12 of 255 (243 included) and whose alpha is
\* nonzero to (r,g,b,0) at the same position.
C1_NearWhiteMadeTransparent ==
    glyph # 0 =>
        /\ Len(heap[glyph].data) = Len(heap[base].data)
        /\ \A i \in Positions(heap[base]) :
              LET p == PixelAt(heap[base], i)
              IN  (NearWhite(p) /\ p[4] # 0) =>
                      heap[glyph].data[i] = <<p[1], p[2], p[3], 0>>

\* the pass has run on a buffer with a pixel on the boundary value 243 and
\* nonzero alpha
C1_Witness ==
    /\ pc = "passes"
    /\ glyph # 0
    /\ \E i \in Positions(heap[base]) :
          LET p == PixelAt(heap[base], i)
          IN  /\ p[1] = 243 /\ NearWhite(p) /\ p[4] # 0
              /\ heap[glyph].data[i][4] = 0

\* C2: remove_background_to_alpha passes every pixel that has alpha 0, or
\* a channel more than 12 away from 255, through unchanged in all four
\* channels.
C2_OtherPixelsUnchanged ==
    glyph # 0 =>
        /\ Len(heap[glyph].data) = Len(heap[base].data)
        /\ \A i \in Positions(heap[base]) :
              LET p == PixelAt(heap[base], i)
              IN  (p[4] = 0 \/ ~NearWhite(p)) => heap[glyph].data[i] = p

\* the pass has run on a buffer holding a near-white pixel of alpha 0 or a
\* pixel with one channel at 242 and a partial alpha
C2_Witness ==
    /\ pc = "passes"
    /\ glyph # 0
    /\ \E i \in Positions(heap[base]) :
          LET p == PixelAt(heap[base], i)
          IN  /\ p[1] = 242 /\ p[2] = 243 /\ p[4] = 1
              /\ heap[glyph].data[i] = p
    /\ \E i \in Positions(heap[base]) :
          LET p == PixelAt(heap[base], i)
          IN  NearWhite(p) /\ p[4] = 0 /\ heap[glyph].data[i] = p

\* C3: to_white_silhouette maps a pixel of alpha 0 to (255,255,255,0) and a
\* pixel of nonzero alpha to (255,255,255,255), and keeps the pixel count.
C3_SilhouetteIsBinary ==
    white # 0 =>
        /\ Len(heap[white].data) = Len(heap[base].data)
        /\ \A i \in Positions(heap[base]) :
              heap[white].data[i] =
                  IF PixelAt(heap[base], i)[4] = 0
                  THEN <<255, 255, 255, 0>>
                  ELSE <<255, 255, 255, 255>>

\* the silhouette of a buffer holding a partial alpha and an alpha of 0
C3_Witness ==
    /\ pc = "passes"
    /\ white # 0
    /\ \E i, j \in Positions(heap[base]) :
          /\ PixelAt(heap[base], i)[4] = 1
          /\ PixelAt(heap[base], i)[1] # 255
          /\ heap[white].data[i] = <<255, 255, 255, 255>>
          /\ PixelAt(heap[base], j)[4] = 0
          /\ heap[white].data[j] = <<255, 255, 255, 0>>

\* C4: started without a source path, main prints the usage message and
\* exits with status 1; no step of the pipeline runs, no image is opened
\* and no file is written.
C4_UsageExit ==
    Len(argv) < 2 =>
        /\ trace = <<>>
        /\ heap = <<>>
        /\ files \in InitialFiles
        /\ pc = "exit" => (status = 1 /\ stdout = <<USAGE>>)

\* the run without an argument has ended
C4_Witness ==
    /\ Len(argv) < 2
    /\ pc = "exit"
    /\ stdout = <<USAGE>>

\* the order of the steps as the spec states it
SpecOrder ==
    << "open", "remove_background_to_alpha", "to_white_silhouette",
       "save icon-glyph.png", "save icon-glyph-white.png" >>
\* the order of the steps in main
MainOrder ==
    << "open", "remove_background_to_alpha", "save icon-glyph.png",
       "to_white_silhouette", "save icon-glyph-white.png" >>

\* C5 as stated: a successful run executes load, background removal,
\* silhouette, save, save, in this order.
C5_Original == status = 0 => trace = SpecOrder

\* C5 as amended: the steps run strictly sequentially in the order load,
\* background removal, save of icon-glyph.png, silhouette, save of
\* icon-glyph-white.png, and a successful run executes all five.
C5_MainOrder ==
    /\ Len(trace) <= Len(MainOrder)
    /\ trace = SubSeq(MainOrder, 1, Len(trace))
    /\ status = 0 => trace = MainOrder

\* a successful run
C5_Witness ==
    /\ status = 0
    /\ Len(trace) = 5
    /\ files[white_path].kind = "png"

\* C6: where the alpha is 0 after the background removal, it is 0 in every
\* later buffer, in the silhouette and in both written files.
C6_AlphaZeroStays ==
    (Len(argv) >= 2 /\ glyph # 0) =>
        \A i \in Positions(heap[glyph]) :
            heap[glyph].data[i][4] = 0 =>
                /\ \A k \in glyph..Len(heap) : heap[k].data[i][4] = 0
                /\ white # 0 => heap[white].data[i][4] = 0
                /\ files[glyph_path].kind = "png" =>
                       files[glyph_path].data[i][4] = 0
                /\ files[white_path].kind = "png" =>
                       files[white_path].data[i][4] = 0

\* both files are written and some alpha was set to 0 by the first pass
C6_Witness ==
    /\ status = 0
    /\ files[glyph_path].kind = "png"
    /\ files[white_path].kind = "png"
    /\ \E i \in Positions(source) :
          /\ PixelAt(source, i)[4] # 0
          /\ heap[glyph].data[i][4] = 0
          /\ files[white_path].data[i][4] = 0

NoSave(t) == \A i \in 1..Len(t) :
    t[i] \notin {"save icon-glyph.png", "save icon-glyph-white.png"}

\* C7: every failure ends the run at its step, without retry or cleanup: a
\* failed open or decode leaves both files unwritten, a failed save of
\* icon-glyph.png ends the run before icon-glyph-white.png is attempted, a
\* failed save of icon-glyph-white.png leaves the written icon-glyph.png.
C7_FailuresAreFatal ==
    /\ \A i, j \in 1..Len(trace) : trace[i] = trace[j] => i = j
    /\ err # "none" => (pc = "exit" /\ status = 1 /\ ~ENABLED Next)
    /\ err \in {"open", "decode"} => (NoSave(trace) /\ files \in InitialFiles)
    /\ err = "save_glyph" =>
           /\ white = 0
           /\ trace[Len(trace)] = "save icon-glyph.png"
           /\ files[white_path] \in {Absent, Stale}
    /\ err = "save_white" =>
           /\ trace[Len(trace)] = "save icon-glyph-white.png"
           /\ files[glyph_path] = encode_png(heap[glyph])

\* the second save has failed after the first one succeeded
C7_Witness ==
    /\ err = "save_white"
    /\ pc = "exit"
    /\ files[glyph_path].kind = "png"
    /\ files[white_path].kind # "png"

\* C8: to_white_silhouette applied to its own result gives that result
\* again, pixel for pixel.
C8_SilhouetteIdempotent ==
    white2 # 0 =>
        /\ heap[white2].mode = heap[white].mode
        /\ heap[white2].data = heap[white].data

\* the pass has been applied twice to a buffer with zero and nonzero alpha
C8_Witness ==
    /\ pc = "passes"
    /\ white2 # 0
    /\ white2 # white
    /\ \E i, j \in Positions(heap[base]) :
          /\ PixelAt(heap[base], i)[4] = 1
          /\ heap[white2].data[i][4] = 255
          /\ PixelAt(heap[base], j)[4] = 0
          /\ heap[white2].data[j][4] = 0

\* C9: no pass changes the buffer it is given: every image object that
\* exists before a step is the same after it.
C9_InputsNotMutated ==
    [][ /\ Len(heap') >= Len(heap)
        /\ \A k \in 1..Len(heap) : heap'[k] = heap[k] ]_vars

\* after the silhouette, the glyph is its own object and still holds a
\* pixel with its colour and a partial alpha; the source buffer still has
\* its mode
C9_Witness ==
    /\ white # 0
    /\ white # glyph
    /\ glyph # base
    /\ heap[base] = source
    /\ \E i \in Positions(heap[glyph]) :
          /\ heap[glyph].data[i] = <<10, 20, 30, 1>>
          /\ heap[white].data[i] = <<255, 255, 255, 255>>

\* C10: the pixel written to icon-glyph-white.png is (255,255,255,255)
\* exactly where the source pixel has nonzero alpha and a channel more than
\* 12 away from 255, and (255,255,255,0) elsewhere.
C10_EndToEnd ==
    (Len(argv) >= 2 /\ files[white_path].kind = "png") =>
        /\ Len(files[white_path].data) = Len(source.data)
        /\ \A i \in Positions(source) :
              LET p == PixelAt(source, i)
              IN  files[white_path].data[i] =
                      IF p[4] # 0 /\ ~NearWhite(p)
                      THEN <<255, 255, 255, 255>>
                      ELSE <<255, 255, 255, 0>>

\* a written silhouette file with an opaque pixel from a partial alpha and
\* a transparent one from a near-white opaque source pixel
C10_Witness ==
    /\ Len(argv) >= 2
    /\ files[white_path].kind = "png"
    /\ \E i, j \in Positions(source) :
          /\ PixelAt(source, i)[4] = 1
          /\ ~NearWhite(PixelAt(source, i))
          /\ files[white_path].data[i] = <<255, 255, 255, 255>>
          /\ NearWhite(PixelAt(source, j))
          /\ PixelAt(source, j)[4] = 255
          /\ files[white_path].data[j] = <<255, 255, 255, 0>>

====
